---- MODULE Spec2Model ----
(***************************************************************************)
(* The join-and-materialize pipeline of the data aggregator.               *)
(*                                                                         *)
(* src/server.js holds two programs: the live listing route /api/all-data  *)
(* (lines 1-155) and the sync route /api/sync with                         *)
(* fetchAggregateAndSaveData (lines 157-495).  src/unnamed/part_000 and    *)
(* part_001 hold two further versions of the listing function              *)
(* fetchAndAggregateData.                                                  *)
(*                                                                         *)
(* A document is a record whose DOMAIN is the set of fields it holds: a    *)
(* field that $project computes from a missing value is absent from the    *)
(* record.  A collection is the sequence of its documents in insertion     *)
(* (natural) order.  Fields that every pipeline copies through untouched   *)
(* (title, description, location, status, redFlags, greenFlags, ...) are   *)
(* not carried.                                                            *)
(***************************************************************************)
EXTENDS Integers, Sequences, FiniteSets, TLC

\* ---- bounds ---------------------------------------------------------------
NumReqs == 2        \* requests to /api/sync, numbered in order of arrival
MaxIssues == 2      \* Reports the submission flow creates
MaxFlags == 1       \* Flags the flag-creation flow creates

Reqs == 1..NumReqs

VARIABLES
    issues,        \* source collection 'issues'    (model Issue)
    users,         \* source collection 'users'     (model User)
    flags,         \* source collection 'flags'     (model Flag)
    flogs,         \* source collection 'flogs'     (what the sync $lookup reads)
    detections,    \* source collection 'detections'
    agrigate,      \* target collection 'agrigate'  (model AggregatedIssue)
    pc,            \* per request: the store operation it awaits next
    issuesToSave,  \* per request: the result of its Issue.aggregate
    metadata,      \* per request: the summary counts gathered so far
    inserted,      \* per request: documents of issuesToSave already inserted
    error,         \* per request: the error caught at server.js:388
    response,      \* per request: the responses sent through res
    srcAt,         \* history: version of the source its aggregate read
    prior,         \* history: the target collection when the run began
    overlap,       \* history: another run was in progress during this one
    writes,        \* history: deleteMany/insert operations the run issued
    listed         \* what the most recent listing call produced

vars == <<issues, users, flags, flogs, detections, agrigate, pc, issuesToSave,
          metadata, inserted, error, response, srcAt, prior, overlap, writes,
          listed>>
source == <<issues, users, flags, flogs, detections>>
locals == <<issuesToSave, metadata, inserted, error, response, srcAt, prior,
            writes>>
sync == <<pc, locals, overlap>>

\* ---- helpers --------------------------------------------------------------
Range(s) == {s[i] : i \in 1..Len(s)}

Has(d, f) == f \in DOMAIN d

\* Every mutation of the source appends one document, so the sizes of the
\* collections identify the source's contents along a behaviour.
SourceVersion == Len(issues) + Len(users) + Len(flags) + Len(flogs) + Len(detections)

\* ---- the aggregation pipelines -------------------------------------------
\* $lookup: the documents of collection from whose foreignField equals v,
\* in the collection's natural order.
Lookup(from, foreignField, v) ==
    LET Match(d) == Has(d, foreignField) /\ d[foreignField] = v
    IN  SelectSeq(from, Match)

\* As UnwindPreserve, without preserveNullAndEmptyArrays: a document whose
\* looked-up array is empty is dropped.
UnwindDrop(issue, arr) == [i \in 1..Len(arr) |-> <<issue, <<arr[i]>> >>]

\* $unwind with preserveNullAndEmptyArrays: one document per element of the
\* looked-up array, and one (with the field absent) when the array is empty.
\* A joined document is <<issue, the user or <<>>, flags array, detections array>>.
UnwindPreserve(issue, arr) ==
    IF arr = <<>> THEN << <<issue, <<>> >> >>
    ELSE [i \in 1..Len(arr) |-> <<issue, <<arr[i]>> >>]

RECURSIVE Concat(_)
Concat(ss) == IF ss = <<>> THEN <<>> ELSE Head(ss) \o Concat(Tail(ss))

\* $sort {createdAt: -1}: the sort key is not unique and the pipeline names no
\* second key, so the store may return documents of equal createdAt in any
\* order; every arrangement in descending createdAt is a possible outcome.
SortOutcomes(docs) ==
    LET n == Len(docs)
        Arr(p) == [i \in 1..n |-> docs[p[i]]]
    IN  {Arr(p) : p \in {q \in Permutations(1..n) :
            \A i \in 1..n : \A j \in 1..n :
                i < j => docs[q[i]].createdAt >= docs[q[j]].createdAt}}

\* The $map over issueFlags of the sync pipeline.
FlagEntry(f) == [sourceFlagId |-> f._id]

\* $project of the sync pipeline, for one joined document.
ProjectSync(issue, userArr, flagArr, detArr) ==
    LET core == [ _id |-> issue._id,
                  sourceIssueId |-> issue._id,
                  createdAt |-> issue.createdAt,
                  imageUrl |-> issue.imageUrl,
                  submittedBy |-> issue.submittedBy,
                  submittedUser |->
                      IF userArr = <<>> THEN <<>>
                      ELSE << [sourceUserId |-> userArr[1]._id,
                               name |-> userArr[1].name] >>,
                  issueFlags |-> [i \in 1..Len(flagArr) |-> FlagEntry(flagArr[i])] ]
    IN  IF detArr = <<>> THEN core
        ELSE core @@ [ annotatedImageUrl |-> detArr[1].annotatedImageUrl,
                       detections |-> detArr[1].detections ]

\* Stages 1-4 of the sync pipeline, before the $sort. The Flags are looked
\* up in the collection named 'flogs'.
JoinSync ==
    LET Stage(issue) ==
            LET unwound == UnwindPreserve(issue, Lookup(users, "_id", issue.userId))
            IN  [k \in 1..Len(unwound) |->
                    ProjectSync(issue, unwound[k][2],
                                Lookup(flogs, "issueId", issue._id),
                                Lookup(detections, "issueId", issue._id))]
    IN  Concat([i \in 1..Len(issues) |-> Stage(issues[i])])

\* As AggregateSync, but incremental: Reports that already have a record in the
\* target are left out of the run.
AggregateSyncSkip ==
    SortOutcomes(SelectSeq(JoinSync,
        LAMBDA d : d._id \notin {agrigate[i]._id : i \in DOMAIN agrigate}))

\* The possible results of Issue.aggregate in fetchAggregateAndSaveData.
AggregateSync == SortOutcomes(JoinSync)

\* ---- the target collection ------------------------------------------------
\* AggregatedIssueSchema declares issueFlags as [{ ..., type: String, ... }]:
\* the literal holds the key 'type', so Mongoose reads it as the element type
\* and the path is an array of strings. A composite whose issueFlags holds a
\* flag object cannot be cast, and insertMany rejects before it writes.
Castable(doc) == doc.issueFlags = <<>>

\* As Ids, for a collection with no unique key.
IdsNone(coll) == {}

\* _id is the collection's unique key.
Ids(coll) == {coll[i]._id : i \in 1..Len(coll)}

\* Everything the target database holds.
TargetStore == [agrigate |-> agrigate]

Active(r) == pc[r] \in {"users", "flags", "delete", "insert"}
Ended(r) == pc[r] \in {"done", "failed", "crashed"}

ErrorMessage == "Failed to fetch, aggregate, or save data to the target DB."

NoMeta == [totalIssues |-> 0, totalUsers |-> 0, totalFlags |-> 0]

\* No listing call has returned yet.
NotListed == [by |-> "none"]

\* What Mongoose stores for a composite: the schema's array path detections
\* defaults to the empty array, and the version key is set.
Cast(doc) ==
    (IF Has(doc, "detections") THEN doc ELSE doc @@ [detections |-> <<>>])
        @@ [version |-> 0]

\* A record left in the target by an earlier deployment, for a Report that is
\* no longer in the source.
StaleDoc ==
    Cast([ _id |-> 0, sourceIssueId |-> 0, createdAt |-> 0, imageUrl |-> "img",
           submittedBy |-> "cached", submittedUser |-> <<>>, issueFlags |-> <<>> ])

\* ---- the source's own writers (external flows) -----------------------------
\* The submission flow creates a Report; timestamps: true stamps createdAt
\* with the clock, which does not run backwards and may not have advanced.
AddIssue ==
    /\ Len(issues) < MaxIssues
    /\ \E t \in (IF issues = <<>> THEN {1}
                  ELSE {issues[Len(issues)].createdAt,
                        issues[Len(issues)].createdAt + 1}) :
          issues' = Append(issues, [ _id |-> Len(issues) + 1, userId |-> 1,
                                      createdAt |-> t, imageUrl |-> "img",
                                      submittedBy |-> "cached" ])
    /\ UNCHANGED <<users, flags, flogs, detections, agrigate, pc, locals,
                   overlap, listed>>

\* The flag-creation flow stores a Flag through the Flag model, in 'flags'.
AddFlag ==
    /\ Len(flags) < MaxFlags
    /\ \E i \in 1..Len(issues) :
          flags' = Append(flags, [ _id |-> Len(flags) + 1, issueId |-> i ])
    /\ UNCHANGED <<issues, users, flogs, detections, agrigate, pc, locals,
                   overlap, listed>>

\* ---- /api/sync and fetchAggregateAndSaveData -------------------------------
\* As Throw, with the function's catch answering as well as the route's.
ThrowTwice(r, cause) ==
    /\ pc' = [pc EXCEPT ![r] = "failed"]
    /\ error' = [error EXCEPT ![r] = cause]
    /\ response' = [response EXCEPT ![r] =
            @ \o << [status |-> 500, success |-> FALSE, error |-> ErrorMessage],
                    [status |-> 500, success |-> FALSE, error |-> ErrorMessage] >>]

\* catch (server.js:388) with the route's catch (server.js:414): the cause is
\* logged, one fixed message is thrown on, and the route answers 500 with it.
Throw(r, cause) ==
    /\ pc' = [pc EXCEPT ![r] = "failed"]
    /\ error' = [error EXCEPT ![r] = cause]
    /\ response' = [response EXCEPT ![r] =
            Append(@, [status |-> 500, success |-> FALSE, error |-> ErrorMessage])]

\* return aggregatedData (server.js:386) with the route's res.json
\* (server.js:408).
SaveComplete(r) ==
    /\ pc' = [pc EXCEPT ![r] = "done"]
    /\ response' = [response EXCEPT ![r] =
            Append(@, [status |-> 200, success |-> TRUE, metadata |-> metadata[r]])]
    /\ UNCHANGED error

\* The next request to /api/sync arrives and its Issue.aggregate runs
\* (server.js:296).
Aggregate(r) ==
    /\ pc[r] = "idle"
    /\ \A q \in Reqs : q < r => pc[q] # "idle"
    /\ overlap' = [o \in Reqs |->
            IF o = r THEN \E q \in Reqs \ {r} : Active(q)
            ELSE overlap[o] \/ Active(o)]
    /\ prior' = [prior EXCEPT ![r] = agrigate]
    /\ srcAt' = [srcAt EXCEPT ![r] = SourceVersion]
    /\ writes' = [writes EXCEPT ![r] = 0]
    /\ inserted' = [inserted EXCEPT ![r] = 0]
    /\ \/ \E res \in AggregateSync :
            /\ issuesToSave' = [issuesToSave EXCEPT ![r] = res]
            /\ metadata' = [metadata EXCEPT ![r] =
                    [NoMeta EXCEPT !.totalIssues = Len(res)]]
            /\ pc' = [pc EXCEPT ![r] = "users"]
            /\ UNCHANGED <<error, response>>
       \/ /\ Throw(r, "aggregate")
          /\ UNCHANGED <<issuesToSave, metadata>>
    /\ UNCHANGED <<source, agrigate, listed>>

\* User.find({}) (server.js:360).
ReadUsers(r) ==
    /\ pc[r] = "users"
    /\ \/ /\ metadata' = [metadata EXCEPT ![r].totalUsers = Len(users)]
          /\ pc' = [pc EXCEPT ![r] = "flags"]
          /\ UNCHANGED <<error, response>>
       \/ /\ Throw(r, "users")
          /\ UNCHANGED metadata
    /\ UNCHANGED <<source, agrigate, issuesToSave, inserted, srcAt, prior,
                   overlap, writes, listed>>

\* Flag.find({}) (server.js:361) and the summary (server.js:363-371).
ReadFlags(r) ==
    /\ pc[r] = "flags"
    /\ \/ /\ metadata' = [metadata EXCEPT ![r].totalFlags = Len(flags)]
          /\ pc' = [pc EXCEPT ![r] = "delete"]
          /\ UNCHANGED <<error, response>>
       \/ /\ Throw(r, "flags")
          /\ UNCHANGED metadata
    /\ UNCHANGED <<source, agrigate, issuesToSave, inserted, srcAt, prior,
                   overlap, writes, listed>>

\* As Cleared, with a filter that matches no document.
ClearedNone(coll) == coll

\* deleteMany({}) removes every document of the collection.
Cleared(coll) == <<>>

\* The store appends the document as Mongoose cast it.
Inserted(coll, doc) == Append(coll, Cast(doc))

\* AggregatedIssue.deleteMany({}) (server.js:377); with nothing to insert the
\* function returns in the same turn (server.js:380-386).
DeleteMany(r) ==
    /\ pc[r] = "delete"
    /\ \/ /\ agrigate' = Cleared(agrigate)
          /\ writes' = [writes EXCEPT ![r] = @ + 1]
          /\ IF Len(issuesToSave[r]) > 0
             THEN /\ pc' = [pc EXCEPT ![r] = "insert"]
                  /\ UNCHANGED <<error, response>>
             ELSE SaveComplete(r)
       \/ /\ Throw(r, "delete")
          /\ UNCHANGED <<agrigate, writes>>
    /\ UNCHANGED <<source, issuesToSave, metadata, inserted, srcAt, prior,
                   overlap, listed>>

\* AggregatedIssue.insertMany(issuesToSave) (server.js:381): Mongoose casts and
\* validates every document first, then the store inserts them one at a time,
\* in order, and stops at the first one it rejects.
InsertMany(r) ==
    /\ pc[r] = "insert"
    /\ LET doc == issuesToSave[r][inserted[r] + 1]
           valid == \A i \in 1..Len(issuesToSave[r]) : Castable(issuesToSave[r][i])
       IN  \/ /\ valid
              /\ doc._id \notin Ids(agrigate)
              /\ agrigate' = Inserted(agrigate, doc)
              /\ inserted' = [inserted EXCEPT ![r] = @ + 1]
              /\ writes' = [writes EXCEPT ![r] = @ + 1]
              /\ IF inserted[r] + 1 < Len(issuesToSave[r])
                 THEN UNCHANGED <<pc, error, response>>
                 ELSE SaveComplete(r)
           \/ /\ ~valid
              /\ Throw(r, "validation")
              /\ UNCHANGED <<agrigate, inserted, writes>>
           \/ /\ valid
              /\ doc._id \in Ids(agrigate)
              /\ Throw(r, "duplicate")
              /\ UNCHANGED <<agrigate, inserted, writes>>
           \/ /\ valid
              /\ Throw(r, "insert")
              /\ UNCHANGED <<agrigate, inserted, writes>>
    /\ UNCHANGED <<source, issuesToSave, metadata, srcAt, prior, overlap,
                   listed>>

\* The server process dies: every run in progress is cut off where it stands
\* and answers nothing. Nothing in the process or the store records it.
Crash ==
    /\ \E r \in Reqs : Active(r)
    /\ pc' = [r \in Reqs |-> IF Active(r) THEN "crashed" ELSE pc[r]]
    /\ UNCHANGED <<source, agrigate, locals, overlap, listed>>

\* A started process with no request yet. The source holds one Reporter and no
\* Report; 'flogs' and the target hold what earlier writers left there.
Init ==
    /\ issues = <<>>
    /\ users = << [_id |-> 1, name |-> "A"] >>
    /\ flags = <<>>
    /\ flogs \in {<<>>, << [_id |-> 1, issueId |-> 1] >>}
    /\ detections = <<>>
    /\ agrigate \in {<<>>, <<StaleDoc>>}
    /\ pc = [r \in Reqs |-> "idle"]
    /\ issuesToSave = [r \in Reqs |-> <<>>]
    /\ metadata = [r \in Reqs |-> NoMeta]
    /\ inserted = [r \in Reqs |-> 0]
    /\ error = [r \in Reqs |-> "none"]
    /\ response = [r \in Reqs |-> <<>>]
    /\ srcAt = [r \in Reqs |-> 0]
    /\ prior = [r \in Reqs |-> <<>>]
    /\ overlap = [r \in Reqs |-> FALSE]
    /\ writes = [r \in Reqs |-> 0]
    /\ listed = NotListed

Next ==
    \/ AddIssue
    \/ AddFlag
    \/ \E r \in Reqs : Aggregate(r)
    \/ \E r \in Reqs : ReadUsers(r)
    \/ \E r \in Reqs : ReadFlags(r)
    \/ \E r \in Reqs : DeleteMany(r)
    \/ \E r \in Reqs : InsertMany(r)
    \/ Crash

Spec == Init /\ [][Next]_vars

\* ---- the live listing: /api/all-data and fetchAndAggregateData -------------
EmptyDoc == [f \in {} |-> 0]

\* $project of the listing pipelines, for one joined document. The Detection
\* is the sub-document 'detection' embedded in the Report; a path through a
\* missing value yields no field, and $ifNull falls back on the Report's own
\* imageUrl.
ProjectList(issue, userArr, flagArr) ==
    LET det == IF Has(issue, "detection") THEN issue.detection ELSE EmptyDoc
    IN  [ _id |-> issue._id,
          createdAt |-> issue.createdAt,
          originalImageUrl |-> issue.imageUrl,
          imageUrl |-> IF Has(det, "annotatedImageUrl")
                       THEN det.annotatedImageUrl ELSE issue.imageUrl,
          flags |-> flagArr ]
        @@ (IF Has(det, "annotatedImageUrl")
            THEN [annotatedImageUrl |-> det.annotatedImageUrl] ELSE EmptyDoc)
        @@ (IF Has(det, "detections")
            THEN [detections |-> det.detections] ELSE EmptyDoc)
        @@ (IF userArr # <<>>
            THEN [submittedBy |-> userArr[1].name] ELSE EmptyDoc)

\* The possible results of Issue.aggregate in a listing; flagColl is the
\* collection its second $lookup names.
IssuesWithDetails(flagColl) ==
    LET Stage(issue) ==
            LET unwound == UnwindPreserve(issue, Lookup(users, "_id", issue.userId))
            IN  [k \in 1..Len(unwound) |->
                    ProjectList(issue, unwound[k][2],
                                Lookup(flagColl, "issueId", issue._id))]
    IN  SortOutcomes(Concat([i \in 1..Len(issues) |-> Stage(issues[i])]))

\* As Listing, with the result saved into the target collection as well.
ListingSaved(by, flagColl) ==
    /\ \E res \in IssuesWithDetails(flagColl) :
          /\ listed' = [ by |-> by, status |-> 200, issues |-> res,
                         metadata |-> [ totalUsers |-> Len(users),
                                        totalIssues |-> Len(res),
                                        totalFlags |-> Len(flags) ],
                         during |-> \E r \in Reqs : Active(r) ]
          /\ agrigate' = res
    /\ UNCHANGED <<source, sync>>

\* One listing call: User.find, Flag.find and Issue.aggregate, then the
\* combined object; or one of the reads fails. The field during is history:
\* a sync run was in progress when the call was served.
Listing(by, flagColl) ==
    /\ \/ \E res \in IssuesWithDetails(flagColl) :
             listed' = [ by |-> by, status |-> 200, issues |-> res,
                         metadata |-> [ totalUsers |-> Len(users),
                                        totalIssues |-> Len(res),
                                        totalFlags |-> Len(flags) ],
                         during |-> \E r \in Reqs : Active(r) ]
       \/ listed' = [by |-> by, status |-> 500]
    /\ UNCHANGED <<source, agrigate, sync>>

\* GET /api/all-data (server.js:71).
AllData == Listing("all-data", flags)

\* fetchAndAggregateData of part_000, which looks the Flags up in 'flags'.
FetchAndAggregateData_000 == Listing("part_000", flags)

\* fetchAndAggregateData of part_001, which looks the Flags up in 'flogs'.
FetchAndAggregateData_001 == Listing("part_001", flogs)

\* ---- joins over a source with optional relations ----------------------------
\* The Reports a source may hold: the Reporter reference names the Reporter
\* (1) or no record (2), the Report may carry an embedded Detection, and
\* createdAt does not decrease along the insertion order.
IssueDocs ==
    { [ _id |-> i, userId |-> u, createdAt |-> t, imageUrl |-> "img",
        submittedBy |-> "cached" ] @@ d :
        i \in 1..MaxIssues, u \in {1, 2}, t \in 1..MaxIssues,
        d \in { EmptyDoc,
                [detection |-> [ annotatedImageUrl |-> "ann",
                                 detections |-> <<"pothole">> ]] } }

IssueLists ==
    { s \in UNION {[1..n -> IssueDocs] : n \in 0..MaxIssues} :
        /\ \A i \in 1..Len(s) : s[i]._id = i /\ s[i].createdAt <= i
        /\ \A i \in 1..Len(s) : i > 1 => s[i-1].createdAt <= s[i].createdAt }

\* A document of the collection 'detections' (DetectionSchema).
DetectionDoc(id, issueId, url) ==
    [ _id |-> id, issueId |-> issueId, annotatedImageUrl |-> url,
      detections |-> <<"pothole">> ]

JoinInit ==
    /\ issues \in IssueLists
    /\ users = << [_id |-> 1, name |-> "A"] >>
    /\ flags \in {<<>>, << [_id |-> 1, issueId |-> 1] >>}
    /\ flogs \in {<<>>, << [_id |-> 1, issueId |-> 1] >>}
    /\ detections \in { <<>>,
                        << DetectionDoc(1, 1, "ann1") >>,
                        << DetectionDoc(1, 1, "ann1"), DetectionDoc(2, 1, "ann2") >> }
    /\ agrigate \in {<<>>, <<StaleDoc>>}
    /\ pc = [r \in Reqs |-> "idle"]
    /\ issuesToSave = [r \in Reqs |-> <<>>]
    /\ metadata = [r \in Reqs |-> NoMeta]
    /\ inserted = [r \in Reqs |-> 0]
    /\ error = [r \in Reqs |-> "none"]
    /\ response = [r \in Reqs |-> <<>>]
    /\ srcAt = [r \in Reqs |-> 0]
    /\ prior = [r \in Reqs |-> <<>>]
    /\ overlap = [r \in Reqs |-> FALSE]
    /\ writes = [r \in Reqs |-> 0]
    /\ listed = NotListed

\* Listing calls at any time, beside one sync run.
JoinNext ==
    \/ AllData
    \/ FetchAndAggregateData_000
    \/ FetchAndAggregateData_001
    \/ Aggregate(1)
    \/ ReadUsers(1)
    \/ ReadFlags(1)
    \/ DeleteMany(1)
    \/ InsertMany(1)
    \/ Crash

JoinSpec == JoinInit /\ [][JoinNext]_vars

\* ---- the claims ------------------------------------------------------------
\* The documents the run of request r is to leave in the target.
Stored(r) == [i \in 1..Len(issuesToSave[r]) |-> Cast(issuesToSave[r][i])]

\* No other run was in progress during r's, and none has written to the
\* target since (requests are numbered in order of arrival).
Latest(r) == ~overlap[r] /\ \A q \in Reqs : q > r => writes[q] = 0

\* The aggregate of request r has returned its result.
Joined(r) == pc[r] # "idle" /\ error[r] # "aggregate"

OneError(r) ==
    /\ Len(response[r]) = 1
    /\ response[r][1].status = 500
    /\ ~response[r][1].success

\* C1: after a sync run that returns successfully with no other run
\* overlapping it, the target collection holds exactly the records of that
\* run's join pass, as stored, and none of its earlier records.
C1_Theorem ==
    \A r \in Reqs : (pc[r] = "done" /\ Latest(r)) => agrigate = Stored(r)

\* C1 witness: an isolated run has returned after replacing a non-empty
\* target by two records, and a record of the earlier contents is gone.
C1_Witness ==
    \E r \in Reqs :
        /\ pc[r] = "done" /\ Latest(r)
        /\ Len(issuesToSave[r]) = 2
        /\ \E d \in Range(prior[r]) : d \notin Range(agrigate)

\* C2: while a sync run is in progress with no other run beside it, the target
\* collection a reader sees is the complete prior snapshot or the complete
\* new one.
C2_Claim ==
    \A r \in Reqs :
        (Active(r) /\ ~overlap[r]) =>
            Range(agrigate) \in {Range(prior[r]), Range(Stored(r))}

\* C3: at most one sync run at a time is between its delete on the target
\* collection and the end of its insert.
C3_Claim == Cardinality({r \in Reqs : pc[r] = "insert"}) <= 1

\* C4: a run whose insert fails after some of the records went in reports an
\* error and leaves the target empty or holding the complete prior snapshot.
C4_Claim ==
    \A r \in Reqs :
        (/\ pc[r] = "failed" /\ error[r] \in {"insert", "duplicate"}
         /\ inserted[r] > 0 /\ Latest(r))
        => /\ OneError(r)
           /\ agrigate = <<>> \/ agrigate = prior[r]

\* C5: a run that fails in its read stage (the aggregation, the Reporter read
\* or the Flag read) has issued no delete and no insert, has left the target
\* as it found it, and has answered with exactly one error.
C5_Theorem ==
    \A r \in Reqs :
        (pc[r] = "failed" /\ error[r] \in {"aggregate", "users", "flags"})
        => /\ writes[r] = 0 /\ inserted[r] = 0
           /\ OneError(r)
           /\ Latest(r) => agrigate = prior[r]

\* C5 witness: an isolated run has failed at its Flag read over a non-empty
\* target.
C5_Witness ==
    \E r \in Reqs :
        /\ pc[r] = "failed" /\ error[r] = "flags" /\ Latest(r)
        /\ Len(issuesToSave[r]) > 0
        /\ agrigate # <<>>

\* C6: the target store left by a run cut off after its clear and before the
\* end of its insert differs from the one a successful sync over zero Reports
\* leaves.
C6_Claim ==
    \A r \in Reqs :
        (pc[r] = "crashed" /\ writes[r] >= 1 /\ inserted[r] < Len(issuesToSave[r]))
        => TargetStore # [agrigate |-> <<>>]

\* C7: of two isolated successful sync runs in sequence over the same source,
\* the second leaves the target with the records (count and content) the
\* first left.
C7_Theorem ==
    \A r1 \in Reqs : \A r2 \in Reqs :
        (/\ r2 = r1 + 1
         /\ pc[r1] = "done" /\ pc[r2] = "done"
         /\ ~overlap[r1] /\ Latest(r2)
         /\ srcAt[r1] = srcAt[r2])
        => /\ Range(agrigate) = Range(prior[r2])
           /\ Len(agrigate) = Len(prior[r2])

\* C7 witness: two such runs over two Reports.
C7_Witness ==
    \E r1 \in Reqs : \E r2 \in Reqs :
        /\ r2 = r1 + 1
        /\ pc[r1] = "done" /\ pc[r2] = "done"
        /\ ~overlap[r1] /\ Latest(r2)
        /\ srcAt[r1] = srcAt[r2]
        /\ Len(agrigate) = 2

\* C8: two join passes over the same unchanged source return the same
\* records in the same order.
C8_Claim ==
    \A r1 \in Reqs : \A r2 \in Reqs :
        (Joined(r1) /\ Joined(r2) /\ srcAt[r1] = srcAt[r2])
        => issuesToSave[r1] = issuesToSave[r2]

\* C9: the join output is in descending order of createdAt, and Reports of
\* equal createdAt are in their insertion order (the order of their _id).
C9_Claim ==
    \A r \in Reqs :
        Joined(r) =>
            \A i \in 1..Len(issuesToSave[r]) : \A j \in 1..Len(issuesToSave[r]) :
                i < j =>
                    \/ issuesToSave[r][i].createdAt > issuesToSave[r][j].createdAt
                    \/ /\ issuesToSave[r][i].createdAt = issuesToSave[r][j].createdAt
                       /\ issuesToSave[r][i]._id < issuesToSave[r][j]._id

\* C10: in the join output over the current source, every Report's Flag
\* collection is as long as the number of its records in the collection the
\* Flag model reads.
C10_Claim ==
    \A r \in Reqs :
        (Joined(r) /\ srcAt[r] = SourceVersion) =>
            \A i \in 1..Len(issuesToSave[r]) :
                Len(issuesToSave[r][i].issueFlags)
                    = Len(Lookup(flags, "issueId", issuesToSave[r][i]._id))

\* ---- claims about the composite views ---------------------------------------
\* The Report a composite record was made from.
Report(c) == issues[c._id]

\* The composite views the most recent listing call returned.
ListedViews ==
    IF listed.by # "none" /\ listed.status = 200 THEN listed.issues ELSE <<>>

\* C11: every composite view of a Report with no matching Detection holds a
\* detected-object collection that is present and empty, and its display image
\* is the Report's own image; in the listing output and in the join output of
\* a sync run.
C11_Claim ==
    /\ \A c \in Range(ListedViews) :
          ~Has(Report(c), "detection") =>
              /\ Has(c, "detections") /\ c.detections = <<>>
              /\ c.imageUrl = Report(c).imageUrl
    /\ \A r \in Reqs : \A c \in Range(issuesToSave[r]) :
          Lookup(detections, "issueId", c._id) = <<>> =>
              /\ Has(c, "detections") /\ c.detections = <<>>
              /\ c.imageUrl = Report(c).imageUrl

\* The Reporter records a Report's reference matches.
Reporters(issue) == Lookup(users, "_id", issue.userId)

\* The documents of 'detections' that belong to the Report of record c.
DetectionData(c) == Lookup(detections, "issueId", c._id)

\* C12: for every Report with a Detection whose annotated-image reference is
\* non-empty, the composite's display image is the first Detection's annotated
\* image and its originalImageUrl is the Report's own image; in the listing
\* output and in the records of the target collection.
C12_Claim ==
    /\ \A c \in Range(ListedViews) :
          (/\ Has(Report(c), "detection")
           /\ Report(c).detection.annotatedImageUrl # "")
          => /\ c.imageUrl = Report(c).detection.annotatedImageUrl
             /\ Has(c, "originalImageUrl")
             /\ c.originalImageUrl = Report(c).imageUrl
    /\ \A c \in Range(agrigate) :
          (/\ c._id \in DOMAIN issues
           /\ DetectionData(c) # <<>>
           /\ DetectionData(c)[1].annotatedImageUrl # "")
          => /\ c.imageUrl = DetectionData(c)[1].annotatedImageUrl
             /\ Has(c, "originalImageUrl")
             /\ c.originalImageUrl = Report(c).imageUrl

\* C13: in every composite of a Report whose Reporter exists, submittedBy is
\* the name the Reporter record holds now; in the listing output and in the
\* join output of a sync run.
C13_Claim ==
    /\ \A c \in Range(ListedViews) :
          Reporters(Report(c)) # <<>> =>
              Has(c, "submittedBy") /\ c.submittedBy = Reporters(Report(c))[1].name
    /\ \A r \in Reqs : \A c \in Range(issuesToSave[r]) :
          Reporters(Report(c)) # <<>> =>
              Has(c, "submittedBy") /\ c.submittedBy = Reporters(Report(c))[1].name

\* C14: a join pass of a sync run that has returned holds, for every Report
\* whose Reporter reference matches no record, a composite with no submittedBy
\* and no Reporter-derived field.
C14_Claim ==
    \A r \in Reqs :
        Joined(r) =>
            \A i \in DOMAIN issues :
                Reporters(issues[i]) = <<>> =>
                    \E c \in Range(issuesToSave[r]) :
                        /\ c._id = issues[i]._id
                        /\ ~Has(c, "submittedBy")
                        /\ c.submittedUser = <<>>

\* ---- claims about the sync operation's outcome and its writes ---------------
\* The case in which the run of request r ended: it returned, it failed in
\* its read (join) stage, or it failed in its write (materialize) stage.
Outcome(r) ==
    IF pc[r] = "done" THEN "success"
    ELSE IF error[r] \in {"aggregate", "users", "flags"} THEN "join"
    ELSE "materialize"

\* C15: two sync runs that ended in different cases (success, join-stage
\* failure, materialize-stage failure) answered their callers differently.
C15_Claim ==
    \A r1 \in Reqs : \A r2 \in Reqs :
        (/\ pc[r1] \in {"done", "failed"} /\ pc[r2] \in {"done", "failed"}
         /\ Outcome(r1) # Outcome(r2))
        => response[r1] # response[r2]

\* C16: a step in which a listing call (/api/all-data, either
\* fetchAndAggregateData) produces its result, or in which a sync run makes its
\* join pass, changes no source collection and not the target collection,
\* whatever else is in progress.
C16_Theorem ==
    [][ (\/ listed' # listed
         \/ \E r \in Reqs : pc[r] = "idle" /\ pc'[r] # "idle")
        => UNCHANGED <<source, agrigate>> ]_vars

\* C16 witness: a listing call was served while a sync run was between its
\* delete and the end of its insert, and returned composites; the run is still
\* there, with the target as its delete left it.
C16_Witness ==
    /\ listed.by = "all-data" /\ listed.status = 200
    /\ listed.during
    /\ Len(listed.issues) = 2
    /\ \E r \in Reqs : pc[r] = "insert" /\ inserted[r] = 0 /\ agrigate = <<>>

\* The number of composites in views made from the Report with identifier id.
CountFor(views, id) == Cardinality({k \in DOMAIN views : views[k]._id = id})

\* C17: a join pass emits exactly one composite per Report of the source,
\* whatever Reporter, Flags or Detections the Report has, and the summary's
\* Report count is the number of Reports; for the join pass of a sync run and
\* for a listing.
C17_Theorem ==
    /\ \A r \in Reqs :
          Joined(r) =>
              /\ \A i \in DOMAIN issues : CountFor(issuesToSave[r], issues[i]._id) = 1
              /\ Len(issuesToSave[r]) = Len(issues)
              /\ metadata[r].totalIssues = Len(issues)
    /\ (listed.by # "none" /\ listed.status = 200) =>
          /\ \A i \in DOMAIN issues : CountFor(listed.issues, issues[i]._id) = 1
          /\ Len(listed.issues) = Len(issues)
          /\ listed.metadata.totalIssues = Len(issues)

\* C17 witness: a sync run's join pass has returned over two Reports, of which
\* the first has a Flag and two Detections and the second has no Reporter.
C17_Witness ==
    \E r \in Reqs :
        /\ Joined(r) /\ pc[r] = "delete"
        /\ Len(issues) = 2
        /\ Reporters(issues[2]) = <<>>
        /\ Len(Lookup(flogs, "issueId", 1)) = 1
        /\ Len(Lookup(detections, "issueId", 1)) = 2

\* C18: in every reachable state the target collection holds at most one
\* record per Report: no two of its records have the same _id, and every
\* record carries that identifier as sourceIssueId too.
C18_Theorem ==
    /\ \A i \in DOMAIN agrigate : \A j \in DOMAIN agrigate :
          i # j => agrigate[i]._id # agrigate[j]._id
    /\ \A c \in Range(agrigate) : c.sourceIssueId = c._id
    /\ \A i \in DOMAIN issues : CountFor(agrigate, issues[i]._id) <= 1

\* C18 witness: of two overlapping runs over two Reports, one had its insert
\* of a Report already present rejected, and the target holds both Reports.
C18_Witness ==
    \E r \in Reqs :
        /\ pc[r] = "failed" /\ error[r] = "duplicate" /\ overlap[r]
        /\ Len(issuesToSave[r]) = 2
        /\ Len(agrigate) = 2

\* C19: when two sync runs that overlapped, over the same unchanged non-empty
\* source, have both ended with no failure other than a duplicate-key
\* rejection, the target holds exactly one record for every Report.
C19_Claim ==
    \A r1 \in Reqs : \A r2 \in Reqs :
        (/\ r1 < r2
         /\ pc[r1] \in {"done", "failed"} /\ pc[r2] \in {"done", "failed"}
         /\ error[r1] \in {"none", "duplicate"} /\ error[r2] \in {"none", "duplicate"}
         /\ overlap[r1] /\ overlap[r2]
         /\ srcAt[r1] = SourceVersion /\ srcAt[r2] = SourceVersion
         /\ issues # <<>>)
        => \A i \in DOMAIN issues : CountFor(agrigate, issues[i]._id) = 1
====
